---- MODULE Spec2Model ----
(***************************************************************************)
(* A model of the synthetic manufacturing data generator                   *)
(* (generate_data.py), the SPC charts (statistical_process_control.py)     *)
(* and the live OEE dashboard (Dashboard.py).                              *)
(*                                                                         *)
(* Numbers.  Python floats are modelled in fixed point: a finite float is  *)
(* an integer count of 1/FScale, and the IEEE special values NaN and       *)
(* +-Infinity are kept as values of their own, so that a division by zero  *)
(* and its propagation are visible.  Table columns use the units           *)
(*   Downtime_Total      1/100 minute                                      *)
(*   Average_Cycle_Time  1/100 second                                      *)
(* and the counts (Production_Volume, Defects_Total) are plain integers.   *)
(***************************************************************************)
EXTENDS Integers, Sequences, FiniteSets, TLC

VARIABLES
    oee_df,      \* Dashboard: st.session_state.oee_df, the session table
    df_30,       \* Dashboard: the window with its derived columns
    iteration,   \* Dashboard: refresh iterations done so far
    gen_pc,      \* generate_manufacturing_data: where the call stands
    gen_args,    \* its arguments start_date, end_date
    seed,        \* the state of the unseeded random generators
    shifts,      \* the (date, shift) pairs of generate_shifts
    line_idx,    \* the outer loop: position in production_lines
    shift_idx,   \* the inner loop: position in shifts
    all_data,    \* the records appended so far
    table,       \* the DataFrame returned
    call_pc,     \* a call of a pure function: "called" or "returned"
    call,        \* the function called and its arguments
    ret          \* what the call returned

dash_vars == <<oee_df, df_30, iteration>>
gen_vars == <<gen_pc, gen_args, seed, shifts, line_idx, shift_idx, all_data,
              table>>
call_vars == <<call_pc, call, ret>>
vars == <<oee_df, df_30, iteration, gen_pc, gen_args, seed, shifts, line_idx,
          shift_idx, all_data, table, call_pc, call, ret>>

----------------------------------------------------------------------------
(* Bounds of the model *)

MaxRefresh == 6          \* refresh iterations explored
MaxSpan == 4             \* end_date is at most this many days after start_date
MaxSeed == 7             \* seeds of the random stream explored
MaxDays == 9             \* generate_dates: end_date up to this far from start_date
MaxCount == 12           \* calculate_quality_metrics: counts up to this
MaxRows == 5             \* rows of a table handed to an SPC function
MaxDrift == 20           \* refresh iterations of a long run of the dashboard

----------------------------------------------------------------------------
(* Fixed-point floats *)

FScale == 10 * 100       \* a finite float x is the integer x * FScale
CentiPerUnit == 10 * 10  \* table columns kept in 1/100 units

Num(v) == [k |-> "num", v |-> v]
NaN == [k |-> "nan", v |-> 0]
Inf(s) == [k |-> "inf", v |-> s]

IsNum(a) == a.k = "num"
IsNaN(a) == a.k = "nan"

Sign(n) == IF n > 0 THEN 1 ELSE IF n < 0 THEN -1 ELSE 0
Abs(n) == IF n < 0 THEN -n ELSE n
Max(a, b) == IF a >= b THEN a ELSE b
Min(a, b) == IF a <= b THEN a ELSE b

\* float(n) of an integer, and of a column value kept in 1/100 units
FromInt(n) == Num(n * FScale)
FromCenti(c) == Num((c * FScale) \div CentiPerUnit)

FSub(a, b) ==
    IF IsNaN(a) \/ IsNaN(b) THEN NaN
    ELSE IF IsNum(a) /\ IsNum(b) THEN Num(a.v - b.v)
    ELSE IF IsNum(a) THEN Inf(-b.v)
    ELSE IF IsNum(b) THEN a
    ELSE IF a.v = b.v THEN NaN ELSE a

FAdd(a, b) ==
    IF IsNaN(a) \/ IsNaN(b) THEN NaN
    ELSE IF IsNum(a) /\ IsNum(b) THEN Num(a.v + b.v)
    ELSE IF IsNum(a) THEN b
    ELSE IF IsNum(b) THEN a
    ELSE IF a.v = b.v THEN a ELSE NaN

\* The product of two finite floats: exact when one of them is whole
FMul(a, b) ==
    IF IsNaN(a) \/ IsNaN(b) THEN NaN
    ELSE IF IsNum(a) /\ IsNum(b) THEN
        IF b.v % FScale = 0 THEN Num(a.v * (b.v \div FScale))
        ELSE IF a.v % FScale = 0 THEN Num((a.v \div FScale) * b.v)
        ELSE Num((a.v * b.v) \div FScale)
    ELSE IF Sign(a.v) * Sign(b.v) = 0 THEN NaN
    ELSE Inf(Sign(a.v) * Sign(b.v))

\* IEEE division: x/0 is NaN for x = 0 and a signed infinity otherwise.
\* The quotient of two finite floats is exact when the divisor is whole.
FDiv(a, b) ==
    IF IsNaN(a) \/ IsNaN(b) THEN NaN
    ELSE IF IsNum(a) /\ IsNum(b) THEN
        IF b.v = 0 THEN (IF a.v = 0 THEN NaN ELSE Inf(Sign(a.v)))
        ELSE LET n == Sign(b.v) * a.v
                 d == Sign(b.v) * b.v
             IN IF d % FScale = 0 THEN Num(n \div (d \div FScale))
                ELSE Num((n * FScale) \div d)
    ELSE IF IsNum(a) THEN Num(0)
    ELSE IF IsNum(b) THEN Inf(a.v * (IF b.v < 0 THEN -1 ELSE 1))
    ELSE NaN

\* a comparison with NaN is false
FLt(a, b) ==
    IF IsNaN(a) \/ IsNaN(b) THEN FALSE
    ELSE IF IsNum(a) /\ IsNum(b) THEN a.v < b.v
    ELSE IF IsNum(a) THEN b.v > 0
    ELSE IF IsNum(b) THEN a.v < 0
    ELSE a.v < b.v

FLe(a, b) ==
    IF IsNaN(a) \/ IsNaN(b) THEN FALSE
    ELSE a = b \/ FLt(a, b)

RECURSIVE SqrtSearch(_, _, _)
SqrtSearch(lo, hi, n) ==
    IF lo >= hi THEN lo
    ELSE LET mid == (lo + hi + 1) \div 2
         IN IF mid * mid <= n THEN SqrtSearch(mid, hi, n)
            ELSE SqrtSearch(lo, mid - 1, n)

\* floor of the square root of n >= 0
ISqrt(n) == SqrtSearch(0, Min(n, 46340), n)

----------------------------------------------------------------------------
(* Column helpers (pandas Series reductions) *)

\* s[lo] + ... + s[hi], by halves
RECURSIVE SumRange(_, _, _)
SumRange(s, lo, hi) ==
    IF lo > hi THEN 0
    ELSE IF lo = hi THEN s[lo]
    ELSE LET mid == (lo + hi) \div 2
         IN SumRange(s, lo, mid) + SumRange(s, mid + 1, hi)

SumSeq(s) == SumRange(s, 1, Len(s))

MaxSeq(s) == CHOOSE m \in {s[i] : i \in 1..Len(s)} :
                \A i \in 1..Len(s) : s[i] <= m

Column(df, name) == [i \in 1..Len(df) |-> df[i][name]]

\* Series.mean() of a column kept in 1/100 units: NaN for an empty column
SeriesMean(col) ==
    IF Len(col) = 0 THEN NaN
    ELSE Num((SumSeq(col) * FScale) \div (CentiPerUnit * Len(col)))

\* Series.std(): the sample standard deviation (ddof = 1), NaN below 2 rows
SeriesStd(col) ==
    IF Len(col) < 2 THEN NaN
    ELSE LET m == SumSeq(col) \div Len(col)
             dev == [i \in 1..Len(col) |-> (col[i] - m) * (col[i] - m)]
         IN FromCenti(ISqrt(SumSeq(dev) \div (Len(col) - 1)))

----------------------------------------------------------------------------
(* Dashboard.py *)

\* The 8-hour shift of 480 minutes taken for scheduled_time
ScheduledTimeEightHours == 8 * 60

ScheduledTime == 420     \* scheduled_time, minutes per shift
Periods == 60            \* rows of the session table
WindowDays == 30         \* "Last 30 days only"

\* calculate_oee_metrics of Dashboard.py with Quality pooled over the
\* table: (sum of volume - sum of defects) / sum of volume on every row
Dashboard_calculate_oee_metrics_pooled_quality(df) ==
    LET act == Column(df, "Average_Cycle_Time")
        optimal_cycle_time == FSub(SeriesMean(act), SeriesStd(act))
        volume == SumSeq(Column(df, "Production_Volume"))
        defects == SumSeq(Column(df, "Defects_Total"))
        availability(r) ==
            FDiv(FSub(FromInt(ScheduledTime), FromCenti(r.Downtime_Total)),
                 FromInt(ScheduledTime))
        performance(r) ==
            FDiv(FMul(optimal_cycle_time, FromInt(r.Production_Volume)),
                 FromInt(ScheduledTime))
        quality(r) ==
            FDiv(FromInt(volume - defects),
                 IF volume = 0 THEN NaN ELSE FromInt(volume))
    IN [i \in 1..Len(df) |->
          [Availability |-> availability(df[i]),
           Performance |-> performance(df[i]),
           Quality |-> quality(df[i]),
           OEE |-> FMul(FMul(availability(df[i]), performance(df[i])),
                        quality(df[i]))] @@ df[i]]

\* calculate_oee_metrics of Dashboard.py dividing by Production_Volume as
\* it is, without .replace(0, np.nan)
Dashboard_calculate_oee_metrics_no_replace(df) ==
    LET act == Column(df, "Average_Cycle_Time")
        optimal_cycle_time == FSub(SeriesMean(act), SeriesStd(act))
        availability(r) ==
            FDiv(FSub(FromInt(ScheduledTime), FromCenti(r.Downtime_Total)),
                 FromInt(ScheduledTime))
        performance(r) ==
            FDiv(FMul(optimal_cycle_time, FromInt(r.Production_Volume)),
                 FromInt(ScheduledTime))
        quality(r) ==
            FDiv(FromInt(r.Production_Volume - r.Defects_Total),
                 FromInt(r.Production_Volume))
    IN [i \in 1..Len(df) |->
          [Availability |-> availability(df[i]),
           Performance |-> performance(df[i]),
           Quality |-> quality(df[i]),
           OEE |-> FMul(FMul(availability(df[i]), performance(df[i])),
                        quality(df[i]))] @@ df[i]]

\* calculate_oee_metrics of Dashboard.py: the copy of df with four columns
\* added
Dashboard_calculate_oee_metrics(df) ==
    LET act == Column(df, "Average_Cycle_Time")
        optimal_cycle_time == FSub(SeriesMean(act), SeriesStd(act))
        availability(r) ==
            FDiv(FSub(FromInt(ScheduledTime), FromCenti(r.Downtime_Total)),
                 FromInt(ScheduledTime))
        performance(r) ==
            FDiv(FMul(optimal_cycle_time, FromInt(r.Production_Volume)),
                 FromInt(ScheduledTime))
        quality(r) ==
            FDiv(FromInt(r.Production_Volume - r.Defects_Total),
                 IF r.Production_Volume = 0 THEN NaN
                 ELSE FromInt(r.Production_Volume))
    IN [i \in 1..Len(df) |->
          [Availability |-> availability(df[i]),
           Performance |-> performance(df[i]),
           Quality |-> quality(df[i]),
           OEE |-> FMul(FMul(availability(df[i]), performance(df[i])),
                        quality(df[i]))] @@ df[i]]

\* simulate_new_row without the max(0, ...) floors
simulate_new_row_no_floor(df, d) ==
    LET last == df[Len(df)]
        new_row ==
          [Date |-> last.Date + 1,
           Line |-> last.Line,
           Production_Volume |-> last.Production_Volume + d.volume,
           Defects_Total |-> last.Defects_Total + d.defects,
           Downtime_Total |-> last.Downtime_Total + d.downtime * CentiPerUnit,
           Average_Cycle_Time |-> Max(10, last.Average_Cycle_Time + d.cycle)]
    IN Tail(Append(df, new_row))

\* simulate_new_row returning the concatenated table, the oldest row kept
simulate_new_row_keep_oldest(df, d) ==
    LET last == df[Len(df)]
        new_row ==
          [Date |-> last.Date + 1,
           Line |-> last.Line,
           Production_Volume |-> Max(0, last.Production_Volume + d.volume),
           Defects_Total |-> Max(0, last.Defects_Total + d.defects),
           Downtime_Total |->
               Max(0, last.Downtime_Total + d.downtime * CentiPerUnit),
           Average_Cycle_Time |-> Max(10, last.Average_Cycle_Time + d.cycle)]
    IN Append(df, new_row)

\* simulate_new_row: a copy of the last row, one day later, each measure
\* moved by its random draw and floored; appended, and the oldest row dropped
simulate_new_row(df, d) ==
    LET last == df[Len(df)]
        new_row ==
          [Date |-> last.Date + 1,
           Line |-> last.Line,
           Production_Volume |-> Max(0, last.Production_Volume + d.volume),
           Defects_Total |-> Max(0, last.Defects_Total + d.defects),
           Downtime_Total |->
               Max(0, last.Downtime_Total + d.downtime * CentiPerUnit),
           Average_Cycle_Time |-> Max(10, last.Average_Cycle_Time + d.cycle)]
    IN Tail(Append(df, new_row))

\* df[df['Date'] >= df['Date'].max() - pd.Timedelta(days=30)]
Last30Days(df) ==
    LET newest == MaxSeq(Column(df, "Date"))
    IN SelectSeq(df, LAMBDA r : r.Date >= newest - WindowDays)

\* The draws of one simulate_new_row call: np.random.randint(lo, hi) is in
\* lo..hi-1, np.random.uniform(-0.15, 0.15) in [-0.15, 0.15)
SimDraws ==
    { [volume |-> -15, defects |-> 2, downtime |-> 19, cycle |-> 14],
      [volume |-> 14, defects |-> -3, downtime |-> -20, cycle |-> -15],
      [volume |-> 0, defects |-> 0, downtime |-> 0, cycle |-> 0] }

\* The rows the initial table is drawn from: Production_Volume in 80..119,
\* Defects_Total in 0..4, Downtime_Total in 10..89, cycle time in [1.5, 2.5)
InitRows ==
    { [Production_Volume |-> 80, Defects_Total |-> 4,
       Downtime_Total |-> 89 * CentiPerUnit, Average_Cycle_Time |-> 150],
      [Production_Volume |-> 119, Defects_Total |-> 0,
       Downtime_Total |-> 10 * CentiPerUnit, Average_Cycle_Time |-> 249],
      [Production_Volume |-> 80, Defects_Total |-> 0,
       Downtime_Total |-> 10 * CentiPerUnit, Average_Cycle_Time |-> 200],
      [Production_Volume |-> 100, Defects_Total |-> 2,
       Downtime_Total |-> 50 * CentiPerUnit, Average_Cycle_Time |-> 180] }

\* pd.Timestamp.today(), as a day number
Todays == {738521}

\* The session table at start-up: Periods rows dated today-59 .. today
InitialTable(today, p, q) ==
    [i \in 1..Periods |->
        LET r == IF i % 2 = 1 THEN p ELSE q
        IN [Date |-> today - Periods + i,
            Line |-> "A",
            Production_Volume |-> r.Production_Volume,
            Defects_Total |-> r.Defects_Total,
            Downtime_Total |-> r.Downtime_Total,
            Average_Cycle_Time |-> r.Average_Cycle_Time]]

DashInit ==
    /\ \E today \in Todays, p \in InitRows, q \in InitRows :
          oee_df = InitialTable(today, p, q)
    /\ df_30 = <<>>
    /\ iteration = 0

DashIdle ==
    /\ oee_df = <<>>
    /\ df_30 = <<>>
    /\ iteration = 0

\* A pass of the loop that stores the table with its derived columns back
\* into st.session_state.oee_df
RefreshWritingBack ==
    /\ iteration < MaxRefresh
    /\ \E d \in SimDraws :
          LET df == simulate_new_row(oee_df, d)
          IN /\ oee_df' = Dashboard_calculate_oee_metrics(df)
             /\ df_30' = Dashboard_calculate_oee_metrics(Last30Days(df))
    /\ iteration' = iteration + 1
    /\ UNCHANGED <<gen_vars, call_vars>>

\* One pass of the "while True" loop
Refresh ==
    /\ iteration < MaxRefresh
    /\ \E d \in SimDraws :
          LET df == simulate_new_row(oee_df, d)
          IN /\ oee_df' = df
             /\ df_30' = Dashboard_calculate_oee_metrics(Last30Days(df))
    /\ iteration' = iteration + 1
    /\ UNCHANGED <<gen_vars, call_vars>>

\* A long run of the loop in which Downtime_Total keeps drawing its
\* largest step, np.random.randint(-20, 20) = 19
DriftDraws == { [volume |-> 0, defects |-> 0, downtime |-> 19, cycle |-> 0] }

RefreshDrift ==
    /\ iteration < MaxDrift
    /\ \E d \in DriftDraws :
          LET df == simulate_new_row(oee_df, d)
          IN /\ oee_df' = df
             /\ df_30' = Dashboard_calculate_oee_metrics(Last30Days(df))
    /\ iteration' = iteration + 1
    /\ UNCHANGED <<gen_vars, call_vars>>

----------------------------------------------------------------------------
(* generate_data.py: dates *)

\* datetime.max.toordinal(): 9999-12-31, the last day a datetime can hold
MAXORDINAL == 3652059

\* A datetime is [day |-> proleptic Gregorian ordinal, tod |-> hour of day]
DateTime(day, tod) == [day |-> day, tod |-> tod]

DateLe(a, b) == a.day < b.day \/ (a.day = b.day /\ a.tod <= b.tod)

\* datetime.weekday(): Monday is 0 and Sunday is 6
weekday(d) == (d.day + 6) % 7

DaysBeforeMonth == <<0, 31, 59, 90, 120, 151, 181, 212, 243, 273, 304, 334>>
DaysInMonth == <<31, 28, 31, 30, 31, 30, 31, 31, 30, 31, 30, 31>>

\* The calendar date <<year, month, day>> of an ordinal (datetime's _ord2ymd)
ord2ymd(ordinal) ==
    LET n0 == ordinal - 1
        n400 == n0 \div 146097
        r400 == n0 % 146097
        n100 == r400 \div 36524
        r100 == r400 % 36524
        n4 == r100 \div 1461
        r4 == r100 % 1461
        n1 == r4 \div 365
        n == r4 % 365
        year == n400 * 400 + 1 + n100 * 100 + n4 * 4 + n1
        leapyear == n1 = 3 /\ (n4 # 24 \/ n100 = 3)
        leap(m) == IF m > 2 /\ leapyear THEN 1 ELSE 0
        m0 == (n + 50) \div 32
        p0 == DaysBeforeMonth[m0] + leap(m0)
        month == IF p0 > n THEN m0 - 1 ELSE m0
        preceding ==
            IF p0 > n
            THEN p0 - (DaysInMonth[month]
                       + (IF month = 2 /\ leapyear THEN 1 ELSE 0))
            ELSE p0
    IN IF n1 = 4 \/ n100 = 4 THEN <<year - 1, 12, 31>>
       ELSE <<year, month, n - preceding + 1>>

\* date.month
MonthOf(d) == ord2ymd(d.day)[2]

\* date.strftime('%Y-%m-%d'): the calendar date, the time of day dropped
strftime(d) == ord2ymd(d.day)

\* The result of a call: the value returned, or the exception raised
Returned(v) == [raised |-> "none", value |-> v]
Raised(e) == [raised |-> e, value |-> <<>>]

\* The while loop of generate_dates from current_date on, date_list so far.
\* current_date += timedelta(days=1) raises OverflowError past datetime.max.
RECURSIVE generate_dates_loop(_, _, _)
generate_dates_loop(current_date, end_date, date_list) ==
    IF ~DateLe(current_date, end_date) THEN Returned(date_list)
    ELSE LET appended == IF weekday(current_date) < 5
                         THEN Append(date_list, current_date)
                         ELSE date_list
         IN IF current_date.day + 1 > MAXORDINAL THEN Raised("OverflowError")
            ELSE generate_dates_loop(
                     DateTime(current_date.day + 1, current_date.tod),
                     end_date, appended)

generate_dates(start_date, end_date) ==
    generate_dates_loop(start_date, end_date, <<>>)

ShiftNames == <<"Morning", "Afternoon", "Night">>

\* generate_shifts: every date with each of the three shifts, date-major
generate_shifts(date_list) ==
    [i \in 1..(3 * Len(date_list)) |->
        <<date_list[((i - 1) \div 3) + 1], ShiftNames[((i - 1) % 3) + 1]>>]

----------------------------------------------------------------------------
(* generate_data.py: one record *)

\* n / d rounded to the nearest integer, ties to even (Python's round), d > 0
RoundDiv(n, d) ==
    LET a == Abs(n)
        q == a \div d
        r == a % d
        up == IF 2 * r > d \/ (2 * r = d /\ q % 2 = 1) THEN q + 1 ELSE q
    IN Sign(n) * up

\* int(n / d): the quotient truncated toward zero, d > 0
TruncDiv(n, d) == Sign(n) * (Abs(n) \div d)

\* production_lines.  Trends are in 1/100, base_defect_rate in 1/1000,
\* mean_downtime in minutes, base_capacity in units per shift.
LineNames == <<"Line A", "Line B", "Line C">>

production_lines ==
    [l \in {"Line A", "Line B", "Line C"} |->
        IF l = "Line A" THEN
            [base_capacity |-> 500, base_defect_rate |-> 25,
             mean_downtime |-> 30,
             efficiency_trend |-> <<75, 78, 82, 85, 88, 90>>,
             quality_trend |-> <<80, 82, 85, 87, 89, 90>>,
             reliability_trend |-> <<82, 84, 86, 87, 89, 90>>]
        ELSE IF l = "Line B" THEN
            [base_capacity |-> 400, base_defect_rate |-> 15,
             mean_downtime |-> 25,
             efficiency_trend |-> <<88, 89, 90, 91, 92, 93>>,
             quality_trend |-> <<90, 91, 92, 92, 93, 94>>,
             reliability_trend |-> <<89, 90, 91, 92, 93, 94>>]
        ELSE
            [base_capacity |-> 650, base_defect_rate |-> 35,
             mean_downtime |-> 40,
             efficiency_trend |-> <<65, 70, 75, 80, 83, 85>>,
             quality_trend |-> <<70, 75, 80, 83, 85, 87>>,
             reliability_trend |-> <<75, 78, 82, 85, 87, 88>>]]

\* A factor is kept in 1/10000: max(0.5, min(0.99, trend * uniform(0.95, 1.05)))
FactorUnit == 100 * 100
daily_factor(trend, u) == Max(5000, Min(9900, trend * u))

DefectTypes == <<"Dimensional", "Surface", "Assembly", "Material", "Other">>
DowntimeCauses == <<"Maintenance", "Setup/Changeover", "Breakdown",
                    "Material Shortage", "Operator Absence">>

\* np.random.binomial(n, p): a count in 0..n, and 0 or n when p is 0 or 1.
\* pick selects the outcome: 0 none, 1 one, 2 a tenth, 3 all but one, 4 all.
binomial(n, p, pick) ==
    IF p <= 0 THEN 0
    ELSE IF p >= 1000 * FactorUnit THEN n
    ELSE IF pick = 0 THEN 0
    ELSE IF pick = 1 THEN Min(1, n)
    ELSE IF pick = 2 THEN n \div 10
    ELSE IF pick = 3 THEN Max(0, n - 1)
    ELSE n

\* np.random.multinomial(n, weights) over five categories of positive
\* weight: five counts >= 0 that sum to n.  pick selects the outcome.
multinomial(n, pick) ==
    IF pick = 0 THEN <<n, 0, 0, 0, 0>>
    ELSE IF pick = 1 THEN <<0, 0, 0, 0, n>>
    ELSE IF pick = 2 THEN
        <<n - 4 * (n \div 5), n \div 5, n \div 5, n \div 5, n \div 5>>
    ELSE <<n \div 3, n - (n \div 3) - (n \div 4), 0, n \div 4, 0>>

\* generate_defects with the sub-categories drawn over the volume instead of
\* over the defects
generate_defects_spread_volume(production_volume, base_defect_rate, quality_factor, d) ==
    LET effective_defect_rate == base_defect_rate * (FactorUnit - quality_factor)
        total_defects ==
            binomial(production_volume, effective_defect_rate, d.binomial)
        defect_distribution == multinomial(production_volume, d.defect_split)
        defect_types ==
            IF total_defects > 0 THEN defect_distribution
            ELSE <<0, 0, 0, 0, 0>>
    IN <<defect_types, total_defects>>

\* generate_defects with the binomial drawn over one unit more than produced
generate_defects_extra_unit(production_volume, base_defect_rate, quality_factor, d) ==
    LET effective_defect_rate == base_defect_rate * (FactorUnit - quality_factor)
        total_defects ==
            binomial(production_volume + 1, effective_defect_rate, d.binomial)
        defect_distribution == multinomial(total_defects, d.defect_split)
        defect_types ==
            IF total_defects > 0 THEN defect_distribution
            ELSE <<0, 0, 0, 0, 0>>
    IN <<defect_types, total_defects>>

\* generate_defects: <<defect_types, total_defects>>
generate_defects(production_volume, base_defect_rate, quality_factor, d) ==
    LET effective_defect_rate == base_defect_rate * (FactorUnit - quality_factor)
        total_defects ==
            binomial(production_volume, effective_defect_rate, d.binomial)
        defect_distribution == multinomial(total_defects, d.defect_split)
        defect_types ==
            IF total_defects > 0 THEN defect_distribution
            ELSE <<0, 0, 0, 0, 0>>
    IN <<defect_types, total_defects>>

TenthInCenti == CentiPerUnit \div 10

\* generate_downtime: <<downtime_causes, total_downtime>>, both in 1/100
\* minute.  d.occurs is random.random() < 0.8, d.gamma the gamma draw,
\* d.cause_split the multinomial(100, cause_weights) draw.
generate_downtime(mean_downtime_minutes, reliability_factor, d) ==
    IF d.occurs THEN
        LET total_downtime ==
                Min(Max(d.gamma, 0), mean_downtime_minutes * 5 * CentiPerUnit)
            \* round(total_downtime * share / 100, 1): tenths of a minute
            cause(i) ==
                TenthInCenti * RoundDiv(total_downtime * d.cause_split[i],
                                        100 * TenthInCenti)
        IN <<[i \in 1..5 |-> cause(i)], total_downtime>>
    ELSE <<[i \in 1..5 |-> 0], 0>>

\* The result of calculate_quality_metrics, or the exception it raises:
\* FPY, RTY in 1/10000, DPMO a count, Sigma_Level in 1/100.
QScale == 1000 * 1000     \* the defect rate is kept in 1/1000000

\* 10^(j/10) for j = 0..9, in 1/1000
Pow10Tenths == <<1000, 1259, 1585, 1995, 2512, 3162, 3981, 5012, 6310, 7943>>

RECURSIVE DecadesBelow(_, _)
DecadesBelow(num, den) ==
    IF num * 10 <= den THEN 1 + DecadesBelow(num * 10, den) ELSE 0

RECURSIVE TimesTen(_, _)
TimesTen(n, k) == IF k = 0 THEN n ELSE TimesTen(n * 10, k - 1)

\* 10^(j/100) for j = 0..9, in 1/1000
Pow10Hundredths == <<1000, 1023, 1047, 1072, 1096, 1122, 1148, 1175, 1202, 1230>>

\* -np.log10(num / den) for 0 < num < den, in hundredths, rounded down
NegLog10(num, den) ==
    LET k == DecadesBelow(num, den)
        scaled == TimesTen(num, k)
        j == CHOOSE i \in 0..9 :
                /\ Pow10Tenths[i + 1] * scaled <= den * 1000
                /\ \A h \in (i + 1)..9 : Pow10Tenths[h + 1] * scaled > den * 1000
        t == Pow10Tenths[j + 1] * scaled
        j2 == CHOOSE i \in 0..9 :
                /\ Pow10Hundredths[i + 1] * t <= den * QScale
                /\ \A h \in (i + 1)..9 : Pow10Hundredths[h + 1] * t > den * QScale
    IN 100 * k + 10 * j + j2

calculate_quality_metrics(defects_total, production_volume) ==
    LET defect_rate ==
            IF production_volume > 0
            THEN (defects_total * QScale) \div production_volume
            ELSE 0
        fpy == QScale - defect_rate
        dpmo == defect_rate
        \* (1 - defect_rate) ** 1.5 is a complex number for a negative base,
        \* which round() rejects
        rty_is_complex == fpy < 0
        \* fpy * sqrt(fpy), in 1/10000
        rty == RoundDiv((fpy \div 100) * ISqrt(fpy * 100), 10000)
        \* sigma_level in 1/10000
        sigma_level ==
            IF defect_rate = 0 THEN 60000
            ELSE IF defect_rate >= QScale THEN 0
            ELSE Max(0, Min(60000,
                     8406 + 342 * NegLog10(defects_total, production_volume)))
    IN IF rty_is_complex THEN Raised("TypeError")
       ELSE Returned([FPY |-> RoundDiv(fpy, 100),
                      DPMO |-> dpmo,
                      RTY |-> rty,
                      Sigma_Level |-> RoundDiv(sigma_level, 100)])

\* generate_production_volume without the ceiling of 1.2 x base_capacity
generate_production_volume_no_ceiling(base_capacity, efficiency_factor, downtime_total, d) ==
    LET available_time == 480 * CentiPerUnit - downtime_total
        effective_capacity ==
            (((base_capacity * available_time) \div 480) * efficiency_factor)
                \div FactorUnit
        drawn == effective_capacity + (effective_capacity * 5 * d.normal_z)
                                          \div (100 * 10)
        actual_production == TruncDiv(drawn, CentiPerUnit)
    IN Max(0, actual_production)

\* generate_production_volume.  d.normal_z is the normal draw as its
\* distance from the mean in tenths of a standard deviation.
generate_production_volume(base_capacity, efficiency_factor, downtime_total, d) ==
    LET available_time == 480 * CentiPerUnit - downtime_total
        \* effective_capacity in 1/100 unit
        effective_capacity ==
            (((base_capacity * available_time) \div 480) * efficiency_factor)
                \div FactorUnit
        \* normal(effective_capacity, effective_capacity * 0.05)
        drawn == effective_capacity + (effective_capacity * 5 * d.normal_z)
                                          \div (100 * 10)
        actual_production == TruncDiv(drawn, CentiPerUnit)
    IN Max(0, Min(actual_production, (base_capacity * 12) \div 10))

----------------------------------------------------------------------------
(* generate_data.py: generate_manufacturing_data *)

\* The random draws made for one record:
\*   u_eff, u_qual, u_rel  random.uniform(0.95, 1.05), in 1/100
\*   occurs                random.random() < 0.8
\*   gamma                 np.random.gamma(2.0, effective_downtime / 2), in
\*                         1/100 minute
\*   cause_split           np.random.multinomial(100, cause_weights)
\*   normal_z              the np.random.normal draw of the volume
\*   binomial              the np.random.binomial outcome
\*   defect_split          the np.random.multinomial outcome of the defects
GenDraws ==
    << [u_eff |-> 100, u_qual |-> 100, u_rel |-> 100, occurs |-> TRUE,
        gamma |-> 1234, cause_split |-> <<30, 25, 20, 15, 10>>,
        normal_z |-> 0, binomial |-> 2, defect_split |-> 2],
       [u_eff |-> 95, u_qual |-> 95, u_rel |-> 95, occurs |-> TRUE,
        gamma |-> 1, cause_split |-> <<100, 0, 0, 0, 0>>,
        normal_z |-> -300, binomial |-> 4, defect_split |-> 0],
       [u_eff |-> 105, u_qual |-> 105, u_rel |-> 105, occurs |-> TRUE,
        gamma |-> 999999, cause_split |-> <<35, 25, 15, 15, 10>>,
        normal_z |-> 100, binomial |-> 4, defect_split |-> 1],
       [u_eff |-> 100, u_qual |-> 105, u_rel |-> 95, occurs |-> FALSE,
        gamma |-> 1234, cause_split |-> <<30, 25, 20, 15, 10>>,
        normal_z |-> 10, binomial |-> 0, defect_split |-> 2],
       [u_eff |-> 95, u_qual |-> 105, u_rel |-> 100, occurs |-> TRUE,
        gamma |-> 1000, cause_split |-> <<33, 27, 20, 10, 10>>,
        normal_z |-> -10, binomial |-> 1, defect_split |-> 3],
       [u_eff |-> 105, u_qual |-> 95, u_rel |-> 105, occurs |-> TRUE,
        gamma |-> 20000, cause_split |-> <<0, 0, 50, 50, 0>>,
        normal_z |-> -200, binomial |-> 3, defect_split |-> 3],
       [u_eff |-> 100, u_qual |-> 95, u_rel |-> 105, occurs |-> TRUE,
        gamma |-> 777, cause_split |-> <<21, 29, 17, 19, 14>>,
        normal_z |-> 40, binomial |-> 3, defect_split |-> 2],
       [u_eff |-> 105, u_qual |-> 100, u_rel |-> 95, occurs |-> FALSE,
        gamma |-> 1, cause_split |-> <<20, 20, 20, 20, 20>>,
        normal_z |-> 200, binomial |-> 2, defect_split |-> 1] >>

\* The draws the random stream gives to the n-th record of a run
DrawsOf(s, n) == GenDraws[((s + n) % Len(GenDraws)) + 1]

\* The body of the loop: the record for one line, date and shift, or the
\* exception it raises
make_record(line_name, date, shift, d) ==
    LET line_params == production_lines[line_name]
        month_idx == MonthOf(date) - 1
        efficiency_factor ==
            daily_factor(line_params.efficiency_trend[month_idx + 1], d.u_eff)
        quality_factor ==
            daily_factor(line_params.quality_trend[month_idx + 1], d.u_qual)
        reliability_factor ==
            daily_factor(line_params.reliability_trend[month_idx + 1], d.u_rel)
        downtime == generate_downtime(line_params.mean_downtime,
                                      reliability_factor, d)
        downtime_data == downtime[1]
        downtime_total == downtime[2]
        production_volume ==
            generate_production_volume(line_params.base_capacity,
                                       efficiency_factor, downtime_total, d)
        defects == generate_defects(production_volume,
                                    line_params.base_defect_rate,
                                    quality_factor, d)
        defect_data == defects[1]
        defects_total == defects[2]
        quality_metrics ==
            calculate_quality_metrics(defects_total, production_volume)
    IN IF month_idx + 1 > Len(line_params.efficiency_trend)
       THEN Raised("IndexError")
       ELSE IF quality_metrics.raised # "none"
       THEN Raised(quality_metrics.raised)
       ELSE Returned(
           [Date |-> strftime(date),
            Shift |-> shift,
            Line |-> line_name,
            Production_Volume |-> production_volume,
            Defects_Total |-> defects_total,
            \* round(defects_total / production_volume, 4), in 1/10000
            Defect_Rate |->
                IF production_volume > 0
                THEN RoundDiv(defects_total * FactorUnit, production_volume)
                ELSE 0,
            Downtime_Total |-> downtime_total,
            Defects |-> defect_data,
            Downtime |-> downtime_data,
            Quality_FPY |-> quality_metrics.value.FPY,
            Quality_DPMO |-> quality_metrics.value.DPMO,
            Quality_RTY |-> quality_metrics.value.RTY,
            Quality_Sigma_Level |-> quality_metrics.value.Sigma_Level,
            \* round(factor, 3), in 1/1000
            Efficiency_Factor |-> RoundDiv(efficiency_factor, 10),
            Quality_Factor |-> RoundDiv(quality_factor, 10),
            Reliability_Factor |-> RoundDiv(reliability_factor, 10)])

\* Record_ID taken as df.index, without the + 1
with_record_id_from_zero(data) ==
    [i \in 1..Len(data) |-> data[i] @@ [Record_ID |-> i - 1]]

\* df['Record_ID'] = df.index + 1
with_record_id(data) ==
    [i \in 1..Len(data) |-> data[i] @@ [Record_ID |-> i]]

\* The calls explored: start_date on a Sunday, a Friday, late in June and
\* at the end of the calendar; end_date up to MaxSpan days later
GenStartDays == {738521, 738526, 738700, MAXORDINAL - 2}
TimesOfDay == {0, 12}

GenInit ==
    /\ gen_pc = "start"
    /\ \E s \in GenStartDays, span \in -1..MaxSpan, t1 \in TimesOfDay,
          t2 \in TimesOfDay :
          /\ s + span <= MAXORDINAL
          /\ gen_args = [start_date |-> DateTime(s, t1),
                         end_date |-> DateTime(s + span, t2)]
    /\ seed \in 0..MaxSeed
    /\ shifts = <<>>
    /\ line_idx = 0
    /\ shift_idx = 0
    /\ all_data = <<>>
    /\ table = <<>>

\* date_list = generate_dates(...); shifts = generate_shifts(date_list)
GenStart ==
    /\ gen_pc = "start"
    /\ LET date_list == generate_dates(gen_args.start_date, gen_args.end_date)
       IN IF date_list.raised # "none"
          THEN /\ gen_pc' = date_list.raised
               /\ UNCHANGED <<shifts, line_idx, shift_idx>>
          ELSE /\ gen_pc' = "loop"
               /\ shifts' = generate_shifts(date_list.value)
               /\ line_idx' = 1
               /\ shift_idx' = 1
    /\ UNCHANGED <<gen_args, seed, all_data, table, dash_vars, call_vars>>

\* One pass of the two nested loops
GenRecord ==
    /\ gen_pc = "loop"
    /\ line_idx <= Len(LineNames)
    /\ shift_idx <= Len(shifts)
    /\ LET record == make_record(LineNames[line_idx], shifts[shift_idx][1],
                                 shifts[shift_idx][2],
                                 DrawsOf(seed, Len(all_data)))
       IN IF record.raised # "none"
          THEN /\ gen_pc' = record.raised
               /\ UNCHANGED <<all_data, line_idx, shift_idx>>
          ELSE /\ all_data' = Append(all_data, record.value)
               /\ IF shift_idx = Len(shifts)
                  THEN line_idx' = line_idx + 1 /\ shift_idx' = 1
                  ELSE line_idx' = line_idx /\ shift_idx' = shift_idx + 1
               /\ UNCHANGED gen_pc
    /\ UNCHANGED <<gen_args, seed, shifts, table, dash_vars, call_vars>>

\* The loops are over: the DataFrame with its Record_ID column is returned
GenReturn ==
    /\ gen_pc = "loop"
    /\ line_idx > Len(LineNames) \/ Len(shifts) = 0
    /\ table' = with_record_id(all_data)
    /\ gen_pc' = "done"
    /\ UNCHANGED <<gen_args, seed, shifts, line_idx, shift_idx, all_data,
                   dash_vars, call_vars>>

GenNext == GenStart \/ GenRecord \/ GenReturn

----------------------------------------------------------------------------
(* statistical_process_control.py *)

\* Series.mean() of a float column: the NaN entries are skipped, and the
\* mean of no entry is NaN
RECURSIVE FSumSkipNa(_, _)
FSumSkipNa(col, i) ==
    IF i > Len(col) THEN Num(0)
    ELSE IF IsNaN(col[i]) THEN FSumSkipNa(col, i + 1)
    ELSE FAdd(col[i], FSumSkipNa(col, i + 1))

CountNotNa(col) == Cardinality({i \in 1..Len(col) : ~IsNaN(col[i])})

FMeanSkipNa(col) ==
    IF CountNotNa(col) = 0 THEN NaN
    ELSE FDiv(FSumSkipNa(col, 1), FromInt(CountNotNa(col)))

\* Series.diff() without .abs()
DiffSigned(col) ==
    [i \in 1..Len(col) |->
        IF i = 1 THEN NaN ELSE Num(FromCenti(col[i]).v - FromCenti(col[i - 1]).v)]

\* Series.diff().abs(): undefined on the first row
DiffAbs(col) ==
    [i \in 1..Len(col) |->
        IF i = 1 THEN NaN ELSE Num(Abs(FromCenti(col[i]).v - FromCenti(col[i - 1]).v))]

D2 == Num(1128)          \* the constant 1.128

\* The I-MR computation the two charts share, on the column named col:
\* the columns added to df, the out-of-control mask and the plotted LCL
imr_chart(df, col) ==
    LET x == Column(df, col)
        mean == SeriesMean(x)
        MR == DiffAbs(x)
        MR_bar == FMeanSkipNa(MR)
        UCL == FAdd(mean, FMul(FromInt(3), FDiv(MR_bar, D2)))
        LCL == FSub(mean, FMul(FromInt(3), FDiv(MR_bar, D2)))
    IN [Mean |-> [i \in 1..Len(df) |-> mean],
        MR |-> MR,
        MR_bar |-> MR_bar,
        UCL |-> [i \in 1..Len(df) |-> UCL],
        LCL |-> [i \in 1..Len(df) |-> LCL],
        \* LCL.clip(lower=0), the line drawn
        LCL_plotted |->
            [i \in 1..Len(df) |-> IF FLt(LCL, Num(0)) THEN Num(0) ELSE LCL],
        ooc_mask |->
            [i \in 1..Len(df) |->
                FLt(UCL, FromCenti(x[i])) \/ FLt(FromCenti(x[i]), LCL)]]

imr_chart_cycle_time(df) == imr_chart(df, "Average_Cycle_Time")

imr_chart_downtime(df) == imr_chart(df, "Downtime_Total")

\* p_chart keeps its proportions in 1/PUnit
PUnit == 100 * 100

\* The mean of the per-row proportions, rows without volume skipped
mean_of_proportions(df) ==
    LET rows == {i \in 1..Len(df) : df[i].Production_Volume > 0}
        p == [i \in 1..Len(df) |->
                 IF i \in rows
                 THEN (df[i].Defects_Total * PUnit) \div df[i].Production_Volume
                 ELSE 0]
    IN IF rows = {} THEN NaN ELSE Num(SumSeq(p) \div Cardinality(rows))

\* p_bar = df['Defects_Total'].sum() / df['Production_Volume'].sum()
pooled_proportion(df) ==
    LET defects == SumSeq(Column(df, "Defects_Total"))
        volume == SumSeq(Column(df, "Production_Volume"))
    IN IF volume = 0 THEN (IF defects = 0 THEN NaN ELSE Inf(1))
       ELSE Num((defects * PUnit) \div volume)

\* 3 * np.sqrt((p_bar * (1 - p_bar)) / volume): NaN under a negative root,
\* and x / 0 is NaN or a signed infinity
three_sigma(p_bar, volume) ==
    IF ~IsNum(p_bar) THEN NaN
    ELSE LET q == p_bar.v * (PUnit - p_bar.v)
         IN IF q < 0 THEN NaN
            ELSE IF volume = 0 THEN (IF q = 0 THEN NaN ELSE Inf(1))
            ELSE Num(3 * ISqrt(q \div volume))

\* p_chart: p_bar, the columns added to df, the plotted LCL and the
\* out-of-control mask
p_chart(df) ==
    LET p_bar == pooled_proportion(df)
        p == [i \in 1..Len(df) |->
                 IF df[i].Production_Volume = 0
                 THEN (IF df[i].Defects_Total = 0 THEN NaN ELSE Inf(1))
                 ELSE Num((df[i].Defects_Total * PUnit)
                              \div df[i].Production_Volume)]
        UCL == [i \in 1..Len(df) |->
                   FAdd(p_bar, three_sigma(p_bar, df[i].Production_Volume))]
        LCL == [i \in 1..Len(df) |->
                   FSub(p_bar, three_sigma(p_bar, df[i].Production_Volume))]
    IN [p_bar |-> p_bar,
        p |-> p,
        UCL |-> UCL,
        LCL |-> LCL,
        \* LCL.clip(lower=0), the line drawn
        LCL_plotted |->
            [i \in 1..Len(df) |->
                IF FLt(LCL[i], Num(0)) THEN Num(0) ELSE LCL[i]],
        ooc_mask |->
            [i \in 1..Len(df) |-> FLt(UCL[i], p[i]) \/ FLt(p[i], LCL[i])]]

\* calculate_oee_metrics of statistical_process_control.py on the 8-hour
\* shift of 480 minutes its comment names
SPC_calculate_oee_metrics_eight_hours(df) ==
    LET act == Column(df, "Average_Cycle_Time")
        optimal_cycle_time == FSub(SeriesMean(act), SeriesStd(act))
        availability ==
            [i \in 1..Len(df) |->
                FDiv(FSub(FromInt(480), FromCenti(df[i].Downtime_Total)),
                     FromInt(480))]
        performance ==
            [i \in 1..Len(df) |->
                FDiv(FMul(optimal_cycle_time, FromInt(df[i].Production_Volume)),
                     FromInt(480))]
        quality ==
            [i \in 1..Len(df) |->
                FDiv(FromInt(df[i].Production_Volume - df[i].Defects_Total),
                     FromInt(df[i].Production_Volume))]
        OEE == [i \in 1..Len(df) |->
                   FMul(FMul(availability[i], performance[i]), quality[i])]
    IN [OEE |-> OEE,
        availability |-> availability,
        performance |-> performance,
        quality |-> quality,
        average_oee |-> FMeanSkipNa(OEE)]

\* calculate_oee_metrics of statistical_process_control.py: the OEE column
\* it adds to df and the four values it returns
SPC_calculate_oee_metrics(df) ==
    LET act == Column(df, "Average_Cycle_Time")
        optimal_cycle_time == FSub(SeriesMean(act), SeriesStd(act))
        availability ==
            [i \in 1..Len(df) |->
                FDiv(FSub(FromInt(ScheduledTime),
                          FromCenti(df[i].Downtime_Total)),
                     FromInt(ScheduledTime))]
        performance ==
            [i \in 1..Len(df) |->
                FDiv(FMul(optimal_cycle_time, FromInt(df[i].Production_Volume)),
                     FromInt(ScheduledTime))]
        quality ==
            [i \in 1..Len(df) |->
                FDiv(FromInt(df[i].Production_Volume - df[i].Defects_Total),
                     FromInt(df[i].Production_Volume))]
        OEE == [i \in 1..Len(df) |->
                   FMul(FMul(availability[i], performance[i]), quality[i])]
    IN [OEE |-> OEE,
        availability |-> availability,
        performance |-> performance,
        quality |-> quality,
        average_oee |-> FMeanSkipNa(OEE)]

----------------------------------------------------------------------------
(* Calls of the pure functions, on inputs drawn from bounded sets *)

\* Rows of a table read from the generated CSV: Downtime_Total in 1/100
\* minute, Average_Cycle_Time in 1/100 second
CsvRows ==
    { [Production_Volume |-> 400, Defects_Total |-> 10,
       Downtime_Total |-> 1234, Average_Cycle_Time |-> 4500],
      [Production_Volume |-> 450, Defects_Total |-> 0,
       Downtime_Total |-> 0, Average_Cycle_Time |-> 5200],
      [Production_Volume |-> 0, Defects_Total |-> 0,
       Downtime_Total |-> 20000, Average_Cycle_Time |-> 0],
      [Production_Volume |-> 3, Defects_Total |-> 3,
       Downtime_Total |-> 777, Average_Cycle_Time |-> 6100] }

\* The tables of 1..MaxRows rows
Tables == UNION { [1..n -> CsvRows] : n \in 1..MaxRows }

DatesStartDays == (738521..738527) \cup ((MAXORDINAL - 3)..MAXORDINAL)

CallInit ==
    /\ call_pc = "called"
    /\ ret = <<>>
    /\ \/ \E s \in DatesStartDays, span \in -2..MaxDays, t1 \in TimesOfDay,
             t2 \in TimesOfDay :
             /\ s + span <= MAXORDINAL
             /\ call = [fn |-> "generate_dates",
                        args |-> <<DateTime(s, t1), DateTime(s + span, t2)>>]
       \/ \E defects_total \in 0..MaxCount,
             production_volume \in (0..MaxCount) \cup {100, 780} :
             call = [fn |-> "calculate_quality_metrics",
                     args |-> <<defects_total, production_volume>>]
       \/ \E df \in Tables,
             fn \in {"p_chart", "imr_chart_cycle_time", "imr_chart_downtime",
                     "calculate_oee_metrics",
                     "Dashboard.calculate_oee_metrics"} :
             call = [fn |-> fn, args |-> <<df>>]

Call_generate_dates ==
    /\ call_pc = "called"
    /\ call.fn = "generate_dates"
    /\ ret' = generate_dates(call.args[1], call.args[2])
    /\ call_pc' = "returned"
    /\ UNCHANGED <<call, dash_vars, gen_vars>>

Call_calculate_quality_metrics ==
    /\ call_pc = "called"
    /\ call.fn = "calculate_quality_metrics"
    /\ ret' = calculate_quality_metrics(call.args[1], call.args[2])
    /\ call_pc' = "returned"
    /\ UNCHANGED <<call, dash_vars, gen_vars>>

Call_p_chart ==
    /\ call_pc = "called"
    /\ call.fn = "p_chart"
    /\ ret' = p_chart(call.args[1])
    /\ call_pc' = "returned"
    /\ UNCHANGED <<call, dash_vars, gen_vars>>

Call_imr_chart_cycle_time ==
    /\ call_pc = "called"
    /\ call.fn = "imr_chart_cycle_time"
    /\ ret' = imr_chart_cycle_time(call.args[1])
    /\ call_pc' = "returned"
    /\ UNCHANGED <<call, dash_vars, gen_vars>>

Call_imr_chart_downtime ==
    /\ call_pc = "called"
    /\ call.fn = "imr_chart_downtime"
    /\ ret' = imr_chart_downtime(call.args[1])
    /\ call_pc' = "returned"
    /\ UNCHANGED <<call, dash_vars, gen_vars>>

Call_calculate_oee_metrics ==
    /\ call_pc = "called"
    /\ call.fn = "calculate_oee_metrics"
    /\ ret' = SPC_calculate_oee_metrics(call.args[1])
    /\ call_pc' = "returned"
    /\ UNCHANGED <<call, dash_vars, gen_vars>>

Call_Dashboard_calculate_oee_metrics ==
    /\ call_pc = "called"
    /\ call.fn = "Dashboard.calculate_oee_metrics"
    /\ ret' = Dashboard_calculate_oee_metrics(call.args[1])
    /\ call_pc' = "returned"
    /\ UNCHANGED <<call, dash_vars, gen_vars>>

CallNext ==
    \/ Call_generate_dates
    \/ Call_calculate_quality_metrics
    \/ Call_p_chart
    \/ Call_imr_chart_cycle_time
    \/ Call_imr_chart_downtime
    \/ Call_calculate_oee_metrics
    \/ Call_Dashboard_calculate_oee_metrics

GenIdle ==
    /\ gen_pc = "idle"
    /\ gen_args = <<>>
    /\ seed = 0
    /\ shifts = <<>>
    /\ line_idx = 0
    /\ shift_idx = 0
    /\ all_data = <<>>
    /\ table = <<>>

CallIdle ==
    /\ call_pc = "idle"
    /\ call = <<>>
    /\ ret = <<>>

----------------------------------------------------------------------------
(* The dashboard: the refresh loop from the start-up table *)

Init == DashInit /\ GenIdle /\ CallIdle
Next == Refresh
Spec == Init /\ [][Next]_vars

\* The dashboard left running: the same loop over many iterations
NextDrift == RefreshDrift
SpecDrift == Init /\ [][NextDrift]_vars

----------------------------------------------------------------------------
(* The generator: one call of generate_manufacturing_data *)

InitGen == GenInit /\ DashIdle /\ CallIdle
SpecGen == InitGen /\ [][GenNext]_vars

----------------------------------------------------------------------------
(* The pure functions: one call each *)

InitCalls == CallInit /\ DashIdle /\ GenIdle
SpecCalls == InitCalls /\ [][CallNext]_vars

----------------------------------------------------------------------------
(* Claims *)

Returns(fn) == call_pc = "returned" /\ call.fn = fn

\* C1: in the dashboard, after any number of refresh iterations, every row
\* of the window whose Production_Volume is greater than 0 has
\* 0 <= Quality <= 1.
C1_QualityInUnitRange ==
    \A i \in 1..Len(df_30) :
        df_30[i].Production_Volume > 0 =>
            /\ FLe(FromInt(0), df_30[i].Quality)
            /\ FLe(df_30[i].Quality, FromInt(1))

\* C2: for every record generated, the five defect sub-category counts are
\* each non-negative and sum to Defects_Total, and all five are 0 when
\* Defects_Total is 0.
C2_DefectsSumToTotal ==
    \A i \in 1..Len(all_data) :
        LET r == all_data[i]
        IN /\ Len(r.Defects) = Len(DefectTypes)
           /\ \A j \in 1..Len(r.Defects) : r.Defects[j] >= 0
           /\ SumSeq(r.Defects) = r.Defects_Total
           /\ r.Defects_Total = 0 =>
                 \A j \in 1..Len(r.Defects) : r.Defects[j] = 0

\* C2 witness: a record whose defects fall in several categories, and a
\* record with volume but no defect
C2_Witness ==
    /\ \E i \in 1..Len(all_data) :
          /\ all_data[i].Defects_Total >= 2
          /\ Cardinality({j \in 1..5 : all_data[i].Defects[j] > 0}) >= 2
    /\ \E i \in 1..Len(all_data) :
          /\ all_data[i].Defects_Total = 0
          /\ all_data[i].Production_Volume > 0

\* C3: for every record generated, the five downtime-by-cause minutes sum
\* to the record's Downtime_Total, with and without downtime.
C3_DowntimeSumsToTotal ==
    \A i \in 1..Len(all_data) :
        SumSeq(all_data[i].Downtime) = all_data[i].Downtime_Total

\* The columns a calculate_oee_metrics call returned, whichever of the two
\* implementations was called
OeeColumns ==
    IF call.fn = "calculate_oee_metrics"
    THEN [Availability |-> ret.availability, Performance |-> ret.performance,
          Quality |-> ret.quality, OEE |-> ret.OEE]
    ELSE [Availability |-> Column(ret, "Availability"),
          Performance |-> Column(ret, "Performance"),
          Quality |-> Column(ret, "Quality"),
          OEE |-> Column(ret, "OEE")]

OeeReturned ==
    Returns("calculate_oee_metrics") \/ Returns("Dashboard.calculate_oee_metrics")

Workdays(start_date, end_date) ==
    { start_date.day + k : k \in
        { k \in 0..(end_date.day - start_date.day) :
            /\ DateLe(DateTime(start_date.day + k, start_date.tod), end_date)
            /\ weekday(DateTime(start_date.day + k, start_date.tod)) < 5 } }

\* The i-th smallest element of a set of integers
Nth(S, i) == CHOOSE x \in S : Cardinality({y \in S : y <= x}) = i

LineIndex(name) == CHOOSE l \in 1..Len(LineNames) : LineNames[l] = name
ShiftIndex(name) == CHOOSE h \in 1..Len(ShiftNames) : ShiftNames[h] = name

\* Generation order: line-major, then date, then shift
RowBefore(a, b) ==
    LET ka == <<LineIndex(a.Line), a.Date[1], a.Date[2], a.Date[3],
                ShiftIndex(a.Shift)>>
        kb == <<LineIndex(b.Line), b.Date[1], b.Date[2], b.Date[3],
                ShiftIndex(b.Shift)>>
    IN \E p \in 1..5 : ka[p] < kb[p] /\ \A q \in 1..(p - 1) : ka[q] = kb[q]

\* C5: the table returned holds exactly one row for each combination of
\* line, workday in [start_date, end_date] and shift, so 9 rows per workday,
\* and Record_ID runs 1..N in generation order (line, then date, then shift).
C5_OneRowPerLineDateShift ==
    gen_pc = "done" =>
        LET W == Workdays(gen_args.start_date, gen_args.end_date)
        IN /\ Len(table) = 9 * Cardinality(W)
           /\ \A l \in 1..Len(LineNames), d \in W, h \in 1..Len(ShiftNames) :
                 Cardinality({i \in 1..Len(table) :
                                 /\ table[i].Line = LineNames[l]
                                 /\ table[i].Date = ord2ymd(d)
                                 /\ table[i].Shift = ShiftNames[h]}) = 1
           /\ \A i \in 1..Len(table) : table[i].Record_ID = i
           /\ \A i \in 1..(Len(table) - 1) : RowBefore(table[i], table[i + 1])

\* C5 witness: a table returned for a range that holds two workdays around
\* a weekend
C5_Witness ==
    /\ gen_pc = "done"
    /\ Len(table) >= 18
    /\ \E k \in 0..(gen_args.end_date.day - gen_args.start_date.day) :
          weekday(DateTime(gen_args.start_date.day + k, 0)) >= 5

\* C6: for every record generated, 0 <= Production_Volume <= int(1.2 x
\* base_capacity) of its line, 0 <= Downtime_Total <= 5 x mean_downtime of
\* its line, and the efficiency, quality and reliability factors lie in
\* [0.5, 0.99].
C6_WithinDeclaredBounds ==
    \A i \in 1..Len(all_data) :
        LET r == all_data[i]
            p == production_lines[r.Line]
        IN /\ 0 <= r.Production_Volume
           /\ r.Production_Volume <= (12 * p.base_capacity) \div 10
           /\ 0 <= r.Downtime_Total
           /\ r.Downtime_Total <= 5 * p.mean_downtime * CentiPerUnit
           /\ \A f \in {r.Efficiency_Factor, r.Quality_Factor,
                        r.Reliability_Factor} : 500 <= f /\ f <= 990

\* C6 witness: records at the volume ceiling, at the downtime ceiling and
\* with no volume at all
C6_Witness ==
    /\ \E i \in 1..Len(all_data) :
          all_data[i].Production_Volume =
              (12 * production_lines[all_data[i].Line].base_capacity) \div 10
    /\ \E i \in 1..Len(all_data) :
          all_data[i].Downtime_Total =
              5 * production_lines[all_data[i].Line].mean_downtime * CentiPerUnit
    /\ \E i \in 1..Len(all_data) : all_data[i].Production_Volume = 0

\* C7: for every record generated, Defects_Total never exceeds
\* Production_Volume, Defect_Rate and Quality_FPY lie in [0, 1], Quality_DPMO
\* lies in [0, 1000000], and a record without volume has no defect and a
\* Defect_Rate of 0.
C7_DefectsWithinVolume ==
    \A i \in 1..Len(all_data) :
        LET r == all_data[i]
        IN /\ 0 <= r.Defects_Total
           /\ r.Defects_Total <= r.Production_Volume
           /\ 0 <= r.Defect_Rate /\ r.Defect_Rate <= 10000
           /\ 0 <= r.Quality_FPY /\ r.Quality_FPY <= 10000
           /\ 0 <= r.Quality_DPMO /\ r.Quality_DPMO <= 1000000
           /\ r.Production_Volume = 0 =>
                 r.Defects_Total = 0 /\ r.Defect_Rate = 0

\* C7 witness: a record without volume, and a record whose every unit is
\* defective
C7_Witness ==
    /\ \E i \in 1..Len(all_data) : all_data[i].Production_Volume = 0
    /\ \E i \in 1..Len(all_data) :
          /\ all_data[i].Production_Volume > 0
          /\ all_data[i].Defects_Total = all_data[i].Production_Volume
          /\ all_data[i].Quality_DPMO = 1000000

\* C8: generate_dates(start_date, end_date) returns exactly the workdays of
\* [start_date, end_date], each once and in ascending order, for every pair
\* of dates, and the empty list when start_date is after end_date.
C8_GenerateDatesExact ==
    Returns("generate_dates") =>
        LET start_date == call.args[1]
            W == Workdays(start_date, call.args[2])
        IN /\ ret.raised = "none"
           /\ ret.value = [i \in 1..Cardinality(W) |->
                              DateTime(Nth(W, i), start_date.tod)]
           /\ ~DateLe(start_date, call.args[2]) => ret.value = <<>>

\* C9: calculate_quality_metrics never raises for production_volume = 0,
\* where it returns FPY = 1, DPMO = 0, RTY = 1 and Sigma_Level = 6.0; for
\* every input Sigma_Level lies in [0, 6], is 6.0 when the defect rate is 0
\* and 0.0 when the defect rate is at least 1.
C9_QualityMetricsTotal ==
    Returns("calculate_quality_metrics") =>
        LET defects_total == call.args[1]
            production_volume == call.args[2]
        IN /\ ret.raised = "none"
           /\ 0 <= ret.value.Sigma_Level /\ ret.value.Sigma_Level <= 600
           /\ production_volume = 0 =>
                 ret.value = [FPY |-> 10000, DPMO |-> 0, RTY |-> 10000,
                              Sigma_Level |-> 600]
           /\ (production_volume = 0 \/ defects_total = 0) =>
                 ret.value.Sigma_Level = 600
           /\ (production_volume > 0 /\ defects_total >= production_volume) =>
                 ret.value.Sigma_Level = 0

ImrReturned ==
    Returns("imr_chart_cycle_time") \/ Returns("imr_chart_downtime")

\* The column an I-MR chart is drawn on, as floats
ImrColumn ==
    LET name == IF call.fn = "imr_chart_cycle_time"
                THEN "Average_Cycle_Time" ELSE "Downtime_Total"
    IN [i \in 1..Len(call.args[1]) |->
           (call.args[1][i][name] * FScale) \div CentiPerUnit]

\* C10: in both I-MR charts the moving range of the first row is undefined
\* and every later one is the absolute difference from the previous row;
\* MR_bar is the mean of the n-1 defined moving ranges; the limits are the
\* column mean plus and minus 3 x MR_bar / 1.128, the same on every row and
\* symmetric about the mean; a point is out of control exactly when it is
\* strictly above the upper or strictly below the unclipped lower limit.
C10_ImrLimits ==
    ImrReturned =>
        LET x == ImrColumn
            n == Len(x)
            mean == SumSeq(x) \div n
            mr_sum == SumSeq([i \in 1..(n - 1) |-> Abs(x[i + 1] - x[i])])
            mr_bar == (mr_sum * FScale) \div ((n - 1) * FScale)
            width == 3 * ((mr_bar * FScale) \div 1128)
        IN /\ ret.MR[1] = NaN
           /\ \A i \in 2..n : ret.MR[i] = Num(Abs(x[i] - x[i - 1]))
           /\ \A i \in 1..n : ret.Mean[i] = Num(mean)
           /\ n = 1 => /\ IsNaN(ret.MR_bar)
                       /\ \A i \in 1..n : ~ret.ooc_mask[i]
           /\ n > 1 =>
                 /\ ret.MR_bar = Num(mr_bar)
                 /\ \A i \in 1..n :
                       /\ ret.UCL[i] = Num(mean + width)
                       /\ ret.LCL[i] = Num(mean - width)
                       /\ ret.UCL[i].v - mean = mean - ret.LCL[i].v
                       /\ ret.ooc_mask[i] <=>
                             (x[i] > mean + width \/ x[i] < mean - width)

\* C10 witness: a chart with a point above its upper limit or below its
\* lower limit, and a chart whose lower limit is negative
C10_Witness ==
    /\ ImrReturned
    /\ Len(call.args[1]) >= 5
    /\ \E i \in 1..Len(call.args[1]) : ret.ooc_mask[i]
    /\ \E i \in 1..Len(call.args[1]) : ~ret.ooc_mask[i]

\* C11: in p_chart the centre line p_bar is the pooled proportion, the sum
\* of Defects_Total over the sum of Production_Volume; each row's limits
\* are p_bar plus and minus 3 x sqrt(p_bar x (1 - p_bar) / Production_Volume)
\* of that row, so LCL <= p_bar <= UCL on every row with volume; a row is
\* out of control exactly when its p is strictly above UCL or strictly
\* below the unclipped LCL, so a row with p >= 0 is never marked low when
\* its LCL is negative, although the LCL drawn is clipped at 0.
C11_PChartLimits ==
    Returns("p_chart") =>
        LET df == call.args[1]
            defects == SumSeq(Column(df, "Defects_Total"))
            volume == SumSeq(Column(df, "Production_Volume"))
            p_bar == (defects * PUnit) \div volume
        IN volume > 0 =>
              /\ ret.p_bar = Num(p_bar)
              /\ \A i \in 1..Len(df) :
                    df[i].Production_Volume > 0 =>
                       LET width == 3 * ISqrt((p_bar * (PUnit - p_bar))
                                                 \div df[i].Production_Volume)
                           p == (df[i].Defects_Total * PUnit)
                                    \div df[i].Production_Volume
                       IN /\ ret.p[i] = Num(p)
                          /\ ret.UCL[i] = Num(p_bar + width)
                          /\ ret.LCL[i] = Num(p_bar - width)
                          /\ ret.LCL[i].v <= p_bar /\ p_bar <= ret.UCL[i].v
                          /\ ret.ooc_mask[i] <=>
                                (p > p_bar + width \/ p < p_bar - width)
                          /\ (p >= 0 /\ p_bar - width < 0) =>
                                /\ ret.LCL_plotted[i] = Num(0)
                                /\ ~(ret.ooc_mask[i] /\ p < p_bar)

\* C11 witness: a chart of rows of different volumes in which the pooled
\* proportion differs from the mean of the rows' proportions, one row lies
\* above its UCL, and one row at p = 0 has a negative LCL
C11_Witness ==
    /\ Returns("p_chart")
    /\ Len(call.args[1]) >= 3
    /\ IsNum(ret.p_bar)
    /\ ret.p_bar # mean_of_proportions(call.args[1])
    /\ \E i \in 1..Len(call.args[1]) :
          call.args[1][i].Production_Volume > 0 /\ ret.ooc_mask[i]
    /\ \E i \in 1..Len(call.args[1]) :
          /\ call.args[1][i].Production_Volume > 0
          /\ ret.p[i] = Num(0)
          /\ ret.LCL[i].v < 0
          /\ ~ret.ooc_mask[i]

\* C12: after any number of refresh iterations the session table holds
\* exactly 60 rows dated on consecutive days in increasing order, and each
\* simulate_new_row call appends one row dated one day after the newest
\* row and removes exactly the oldest row, the other 59 rows keeping their
\* order.
C12_SixtyConsecutiveRows ==
    /\ [](oee_df # <<>> =>
            /\ Len(oee_df) = 60
            /\ \A i \in 1..(Len(oee_df) - 1) :
                  oee_df[i + 1].Date = oee_df[i].Date + 1)
    /\ [][iteration' # iteration =>
            /\ Len(oee_df') = Len(oee_df)
            /\ \A i \in 1..(Len(oee_df) - 1) : oee_df'[i] = oee_df[i + 1]
            /\ oee_df'[Len(oee_df')].Date = oee_df[Len(oee_df)].Date + 1]_vars

\* C12 witness: the table after several refreshes, its oldest start-up rows
\* gone
C12_Witness ==
    /\ iteration >= 3
    /\ Len(oee_df) = 60
    /\ \E today \in Todays :
          /\ oee_df[1].Date = today - 60 + 1 + iteration
          /\ oee_df[60].Date = today + iteration

\* C13: in every refresh iteration the window df_30 holds only the last 30
\* days: exactly 30 rows, the 30 most recent rows of the session table, the
\* newest row among them, and never no row.
C13_WindowIsLastThirtyRows ==
    iteration > 0 =>
        /\ Len(df_30) = 30
        /\ \A k \in 1..Len(df_30) :
              df_30[k].Date = oee_df[Len(oee_df) - 30 + k].Date
        /\ Len(df_30) > 0
        /\ df_30[Len(df_30)].Date = oee_df[Len(oee_df)].Date

\* The columns of the session table
BaseColumns ==
    {"Date", "Line", "Production_Volume", "Defects_Total", "Downtime_Total",
     "Average_Cycle_Time"}

\* The window as it was handed to calculate_oee_metrics
WindowInput == [i \in 1..Len(df_30) |-> [c \in BaseColumns |-> df_30[i][c]]]

\* C14: when a row of the dashboard window has Production_Volume = 0,
\* calculate_oee_metrics does not raise: that row's Quality and OEE are NaN,
\* while its Availability and Performance, and every column of every other
\* row, are what they are for the same table with volume in that row.
C14_ZeroVolumeRowIsNaN ==
    \A i \in 1..Len(df_30) :
        df_30[i].Production_Volume = 0 =>
            LET with_volume ==
                    Dashboard_calculate_oee_metrics(
                        [WindowInput EXCEPT ![i].Production_Volume = 1])
            IN /\ IsNaN(df_30[i].Quality)
               /\ IsNaN(df_30[i].OEE)
               /\ df_30[i].Availability = with_volume[i].Availability
               /\ IsNum(df_30[i].Availability)
               /\ df_30[i].Performance = Num(0)
               /\ \A j \in 1..Len(df_30) : j # i => df_30[j] = with_volume[j]

\* C14 witness: a window whose newest row has lost all its volume and has
\* defects, next to rows with volume
C14_Witness ==
    /\ iteration > 0
    /\ df_30[Len(df_30)].Production_Volume = 0
    /\ df_30[Len(df_30)].Defects_Total > 0
    /\ df_30[1].Production_Volume > 0
    /\ IsNum(df_30[1].OEE)

\* C15: after any sequence of simulate_new_row calls from the start-up
\* table every row has Production_Volume >= 0, Defects_Total >= 0,
\* Downtime_Total >= 0 and Average_Cycle_Time >= 0.1, and each appended row
\* differs from the row it was copied from by at most 15 in
\* Production_Volume, 3 in Defects_Total, 20 in Downtime_Total and 0.15 in
\* Average_Cycle_Time, with the same Line.
C15_RowsFlooredAndStepsBounded ==
    /\ [](\A i \in 1..Len(oee_df) :
            /\ oee_df[i].Production_Volume >= 0
            /\ oee_df[i].Defects_Total >= 0
            /\ oee_df[i].Downtime_Total >= 0
            /\ oee_df[i].Average_Cycle_Time >= 10)
    /\ [][iteration' # iteration =>
            LET old == oee_df[Len(oee_df)]
                new == oee_df'[Len(oee_df')]
            IN /\ Abs(new.Production_Volume - old.Production_Volume) <= 15
               /\ Abs(new.Defects_Total - old.Defects_Total) <= 3
               /\ Abs(new.Downtime_Total - old.Downtime_Total)
                     <= 20 * CentiPerUnit
               /\ Abs(new.Average_Cycle_Time - old.Average_Cycle_Time) <= 15
               /\ new.Line = old.Line]_vars

\* C15 witness: the newest row was floored at 0 in Downtime_Total and in
\* Defects_Total, the step from the row before it cut short
C15_Witness ==
    /\ iteration > 0
    /\ oee_df[Len(oee_df)].Downtime_Total = 0
    /\ oee_df[Len(oee_df) - 1].Downtime_Total = 10 * CentiPerUnit
    /\ oee_df[Len(oee_df)].Defects_Total = 0
    /\ oee_df[Len(oee_df)].Production_Volume
          > oee_df[Len(oee_df) - 1].Production_Volume

\* C16: for every row the metrics engine evaluates, 0 <= Availability <= 1:
\* for every row of the dashboard window after any number of refresh
\* iterations, and for every record of generate_manufacturing_data with
\* Availability computed on the 420-minute scheduled time.
C16_AvailabilityInUnitRange ==
    /\ \A i \in 1..Len(df_30) :
          /\ IsNum(df_30[i].Availability)
          /\ 0 <= df_30[i].Availability.v
          /\ df_30[i].Availability.v <= FScale
    /\ \A i \in 1..Len(all_data) :
          LET availability ==
                  FDiv(FSub(FromInt(420), FromCenti(all_data[i].Downtime_Total)),
                       FromInt(420))
          IN 0 <= availability.v /\ availability.v <= FScale

\* C17: for every start_date and end_date passed to
\* generate_manufacturing_data the index date.month - 1 of every generated
\* workday is a valid position in the line's 6-element trend lists, so the
\* function returns a table and does not fail with an index error.
C17_MonthIndexValid ==
    /\ gen_pc # "IndexError"
    /\ \A i \in 1..Len(shifts) :
          LET month_idx == MonthOf(shifts[i][1]) - 1
          IN \A l \in 1..Len(LineNames) :
                /\ month_idx < Len(production_lines[LineNames[l]].efficiency_trend)
                /\ month_idx < Len(production_lines[LineNames[l]].quality_trend)
                /\ month_idx
                     < Len(production_lines[LineNames[l]].reliability_trend)

\* Every row of the table has volume
AllVolumesPositive(df) == \A i \in 1..Len(df) : df[i].Production_Volume > 0

C19_SessionTableKeepsItsColumns ==
    /\ [](\A i \in 1..Len(oee_df) :
            DOMAIN oee_df[i] =
                {"Date", "Line", "Production_Volume", "Defects_Total",
                 "Downtime_Total", "Average_Cycle_Time"})
    /\ [](iteration > 0 =>
            /\ \A i \in 1..Len(df_30) :
                  DOMAIN df_30[i] =
                      DOMAIN oee_df[1]
                          \cup {"Availability", "Performance", "Quality", "OEE"}
            /\ WindowInput = Last30Days(oee_df))
    /\ [][iteration' # iteration =>
            LET old == oee_df[Len(oee_df)]
                new == oee_df'[Len(oee_df')]
            IN /\ Len(oee_df') = Len(oee_df)
               /\ \A i \in 1..(Len(oee_df) - 1) : oee_df'[i] = oee_df[i + 1]
               /\ new.Date = old.Date + 1
               /\ new.Line = old.Line
               /\ \E volume \in -15..14 :
                     new.Production_Volume
                         = Max(0, old.Production_Volume + volume)
               /\ \E defects \in -3..2 :
                     new.Defects_Total = Max(0, old.Defects_Total + defects)
               /\ \E downtime \in -20..19 :
                     new.Downtime_Total
                         = Max(0, old.Downtime_Total + downtime * CentiPerUnit)
               /\ \E cycle \in -15..15 :
                     new.Average_Cycle_Time
                         = Max(10, old.Average_Cycle_Time + cycle)]_vars

\* C19 witness: after several iterations the window carries the derived
\* columns and the session table does not
C19_Witness ==
    /\ iteration >= 2
    /\ "OEE" \in DOMAIN df_30[Len(df_30)]
    /\ IsNum(df_30[Len(df_30)].OEE)
    /\ "OEE" \notin DOMAIN oee_df[Len(oee_df)]
    /\ oee_df[Len(oee_df)].Date = df_30[Len(df_30)].Date

\* C20: in the dashboard the Availability and the Quality of a row depend
\* only on that row's own Downtime_Total, Production_Volume and
\* Defects_Total: a row that stays in the 30-day window from one refresh
\* iteration to the next has the same Availability and the same Quality in
\* both, whatever rows enter or leave the window.
C20_RowMetricsDependOnRowOnly ==
    /\ [](\A i, j \in 1..Len(df_30) :
            (/\ df_30[i].Downtime_Total = df_30[j].Downtime_Total
             /\ df_30[i].Production_Volume = df_30[j].Production_Volume
             /\ df_30[i].Defects_Total = df_30[j].Defects_Total) =>
                /\ df_30[i].Availability = df_30[j].Availability
                /\ df_30[i].Quality = df_30[j].Quality)
    /\ [][\A i \in 1..Len(df_30), j \in 1..Len(df_30') :
            df_30[i].Date = df_30'[j].Date =>
                /\ df_30'[j].Availability = df_30[i].Availability
                /\ df_30'[j].Quality = df_30[i].Quality]_vars

\* C20 witness: a window that holds start-up rows next to several simulated
\* rows of other volume, defects and downtime
C20_Witness ==
    /\ iteration >= 3
    /\ \E today \in Todays :
          /\ df_30[1].Date <= today
          /\ df_30[Len(df_30)].Date = today + iteration
    /\ df_30[Len(df_30)].Quality # df_30[1].Quality
    /\ df_30[Len(df_30)].Availability # df_30[1].Availability
    /\ df_30[Len(df_30)].Performance # df_30[1].Performance

====
